---- MODULE Spec2Model ----
(***************************************************************************)
(* A model of the 2D k-d tree of src/geo/kdtree.rs: KdTree::add,           *)
(* KdTree::from_vector, KdTree::nearest_neighbors and                      *)
(* KdTree::nearest_neighbor, with the helpers they call.                   *)
(*                                                                         *)
(* A tree is a function from paths to nodes.  A path is the sequence of    *)
(* child fields ("left" / "right") followed from the root, so the root is  *)
(* at <<>>; a path outside the domain is a child that is None.  An         *)
(* Option<T> is the set of its contents: None is {} and Some(v) is {v}.    *)
(***************************************************************************)
EXTENDS Integers, Sequences, FiniteSets, TLC

\* ---------------------------------------------------------------- bounds
\* Coordinates range over 0..MaxCoord.
MaxCoord == 2
\* The tree holds at most MaxPoints points; from_vector takes at most
\* MaxPoints pairs.
MaxPoints == 3
\* nearest_neighbors is asked for k in 0..MaxK.
MaxK == 3
\* Lines are drawn between pixels with coordinates in 0..MaxPixel.
MaxPixel == 3
\* next() is called up to MaxNones times after an iterator ran out.
MaxNones == 2
\* split_element_at is given vectors of at most MaxVec elements out of
\* 0..MaxItem, and an index in 0..MaxVec.
MaxVec == 3
MaxItem == 1
\* The unsigned coordinate type u32 is scaled down to CoordBits bits, and
\* the signed type i64 of twice that width to 2 * CoordBits bits, so that
\* every value of both types can be enumerated.
CoordBits == 3
\* A SierpinskiIter is asked for MaxItems items.
MaxItems == 3

Coords == 0..MaxCoord
PointT == [x : Coords, y : Coords]
\* The payload type V is opaque to the tree: two values tell old from new.
Values == {"a", "b"}
Pairs  == [pt : PointT, val : Values]

\* ---------------------------------------------------------------- state
VARIABLES
    root,     \* KdTree.root: the nodes by path, NoTree when None
    length,   \* KdTree.length
    last,     \* the last call: its name, its arguments and what it returned
    line,     \* a BresenhamLineIter, its arguments and what it has yielded
    split,    \* a call of split_element_at: its arguments and what it returned
    sierpinski, \* a SierpinskiIter, its arguments and the items it has yielded
    wide      \* the distance arithmetic of one step of nearest_neighbors

vars == <<root, length, last, line, split, sierpinski, wide>>

\* The variables of the tree, and the variables of the other modules.
tree_vars  == <<root, length, last>>
other_vars == <<line, split, sierpinski, wide>>

None    == {}
Some(v) == {v}

NoTree == [p \in {} |-> {}]

\* ---------------------------------------------------------------- Axis
\* A next() that stays on the same axis.
AxisNextSame(axis) == axis

AxisNext(axis) == IF axis = "X" THEN "Y" ELSE "X"

AxisValue(pt, axis) == IF axis = "X" THEN pt.x ELSE pt.y

\* ---------------------------------------------------------------- Node
NodeNew(pt, value, axis) == [axis |-> axis, median |-> pt, value |-> value]

Cmp(a, b) == IF a < b THEN "Less" ELSE IF a = b THEN "Equal" ELSE "Greater"

\* Where `point` lies with respect to the node along the node's axis.
CmpToPointValue(node, point) ==
    Cmp(AxisValue(point, node.axis), AxisValue(node.median, node.axis))

\* A comparison of the coordinate on the node's axis alone.
SamePointOnAxis(point, node) ==
    AxisValue(point, node.axis) = AxisValue(node.median, node.axis)

\* A comparison that reads median.x twice.
SamePointTypo(point, node) ==
    point.x = node.median.x /\ point.y = node.median.x

\* point == self.median
SamePoint(point, node) == point = node.median

\* A descent that sends an equal coordinate to the right.
AddChildEqualRight(node, path, point) ==
    IF CmpToPointValue(node, point) = "Less"
    THEN Append(path, "left")
    ELSE Append(path, "right")

\* The child slot Node::add descends into.
AddChild(node, path, point) ==
    IF CmpToPointValue(node, point) \in {"Less", "Equal"}
    THEN Append(path, "left")
    ELSE Append(path, "right")

\* An add that also stores the new value in the parent of the node it
\* attaches.
RECURSIVE NodeAddTouchesParent(_, _, _, _)
NodeAddTouchesParent(t, path, point, value) ==
    LET self == t[path] IN
    IF SamePoint(point, self)
    THEN [tree |-> [t EXCEPT ![path].value = value], ret |-> Some(self.value)]
    ELSE LET child == AddChild(self, path, point) IN
         IF child \notin DOMAIN t
         THEN [tree |-> (child :> NodeNew(point, value, AxisNext(self.axis)))
                            @@ [t EXCEPT ![path].value = value],
               ret  |-> None]
         ELSE NodeAddTouchesParent(t, child, point, value)

RECURSIVE NodeAdd(_, _, _, _)
NodeAdd(t, path, point, value) ==
    LET self == t[path] IN
    IF SamePoint(point, self)
    THEN [tree |-> [t EXCEPT ![path].value = value], ret |-> Some(self.value)]
    ELSE LET child == AddChild(self, path, point) IN
         IF child \notin DOMAIN t
         THEN [tree |-> (child :> NodeNew(point, value, AxisNext(self.axis))) @@ t,
               ret  |-> None]
         ELSE NodeAdd(t, child, point, value)

\* ---------------------------------------------------------------- KdTree
KdTreeDefault == [root |-> NoTree, length |-> 0]

\* KdTree::len and KdTree::is_empty.
KdTreeLen(kdtree) == kdtree.length

KdTreeIsEmpty(kdtree) == KdTreeLen(kdtree) = 0

\* A length that never grows after the first add.
AddLengthNever(len, old_value) == len

\* A length that grows on every add.
AddLengthAlways(len, old_value) == len + 1

\* The new length after Node::add returned old_value.
AddLength(len, old_value) == IF old_value = None THEN len + 1 ELSE len

KdTreeAdd(kdtree, point, value) ==
    IF kdtree.root = NoTree
    THEN [root   |-> (<<>> :> NodeNew(point, value, "X")),
          length |-> 1,
          ret    |-> None]
    ELSE LET r == NodeAdd(kdtree.root, <<>>, point, value) IN
         [root   |-> r.tree,
          length |-> AddLength(kdtree.length, r.ret),
          ret    |-> r.ret]

\* ---------------------------------------------------------------- utils
\* A split that cuts at `at` instead of at + 1.
SplitElementAtEarly(v, at) ==
    IF v = <<>>
    THEN [left |-> <<>>, elem |-> None, right |-> <<>>, panic |-> FALSE]
    ELSE IF at > Len(v)
    THEN [left |-> <<>>, elem |-> None, right |-> <<>>, panic |-> TRUE]
    ELSE [left  |-> SubSeq(v, 1, at - 1),
          elem  |-> IF at = 0 THEN None ELSE Some(v[at]),
          right |-> SubSeq(v, at + 1, Len(v)),
          panic |-> FALSE]

\* split_element_at(v, at): the elements before index `at` (0-based), the
\* element at `at`, the elements after it.  Vec::split_off(at + 1) panics
\* when at + 1 > len.
SplitElementAt(v, at) ==
    IF v = <<>>
    THEN [left |-> <<>>, elem |-> None, right |-> <<>>, panic |-> FALSE]
    ELSE IF at + 1 > Len(v)
    THEN [left |-> <<>>, elem |-> None, right |-> <<>>, panic |-> TRUE]
    ELSE [left  |-> SubSeq(v, 1, at),
          elem  |-> Some(v[at + 1]),
          right |-> SubSeq(v, at + 2, Len(v)),
          panic |-> FALSE]

\* The key from_vector selects by: the coordinate on `axis`, then the
\* coordinate on the other axis.
SelectKey(pair, axis) ==
    <<AxisValue(pair.pt, axis), AxisValue(pair.pt, AxisNext(axis))>>

\* The derived order of tuples: lexicographic.
KeyLeq(a, b) == a[1] < b[1] \/ (a[1] = b[1] /\ a[2] <= b[2])

\* ksmallest_by_key(points, k, key): the sequence is reordered in place so
\* that position k holds the element of rank k, every earlier position a
\* key <= it and every later position a key >= it.  Which of the
\* reorderings that satisfy this is produced is not fixed: all of them.
\* None ({}) when k >= len.
KSmallestByKey(points, k, axis) ==
    IF k >= Len(points) THEN {}
    ELSE LET n == Len(points)
             reordered(f) == [i \in 1..n |-> points[f[i]]]
         IN  {s \in {reordered(f) : f \in Permutations(1..n)} :
                 /\ \A i \in 1..k :
                        KeyLeq(SelectKey(s[i], axis), SelectKey(s[k + 1], axis))
                 /\ \A i \in (k + 2)..n :
                        KeyLeq(SelectKey(s[k + 1], axis), SelectKey(s[i], axis))}

\* ---------------------------------------------------------------- from_vector
\* A midpoint that is the length of the work item.
MidLen(points) == Len(points)

\* let mid = points.len() / 2
Mid(points) == Len(points) \div 2

\* One run of the work-queue loop from the state st = [kdtree, ranges,
\* items, panic]: the set of states it can end in, one for each way the
\* selections can reorder the work items.  items records, for every work
\* item that got past the emptiness test, its length, its mid and the pair
\* given to add; panic is set where an unwrap or split_off panics, which
\* ends the run.
RECURSIVE FromVectorLoop(_)
FromVectorLoop(st) ==
    IF st.ranges = <<>> THEN {st}
    ELSE
      LET item == Head(st.ranges)
          rest == Tail(st.ranges)
      IN
      IF item.points = <<>>
      THEN FromVectorLoop([st EXCEPT !.ranges = rest])
      ELSE
        LET mid == Mid(item.points)
            seen(pair) == Append(st.items,
                               [len |-> Len(item.points), mid |-> mid, added |-> pair])
            panicked == [st EXCEPT !.items = seen(None), !.panic = TRUE]
            step(selected) ==
                LET parts == SplitElementAt(selected, mid)
                    new   == CHOOSE e \in parts.elem : TRUE
                    added == KdTreeAdd(st.kdtree, new.pt, new.val)
                IN  IF parts.panic \/ parts.elem = None THEN panicked
                    ELSE
                    [kdtree |-> [root |-> added.root, length |-> added.length],
                     ranges |-> rest \o
                                <<[points |-> parts.left,  axis |-> AxisNext(item.axis)],
                                  [points |-> parts.right, axis |-> AxisNext(item.axis)]>>,
                     items  |-> seen(Some(new)),
                     panic  |-> FALSE]
            selections == KSmallestByKey(item.points, mid, item.axis)
        IN  IF selections = None THEN {panicked}
            ELSE UNION {LET next == step(selected)
                        IN  IF next.panic THEN {next} ELSE FromVectorLoop(next) :
                            selected \in selections}

\* The runs of from_vector(points): the loop from the default tree and the
\* whole list on axis X.
FromVectorRuns(points) ==
    FromVectorLoop([kdtree |-> KdTreeDefault,
                    ranges |-> <<[points |-> points, axis |-> "X"]>>,
                    items  |-> <<>>,
                    panic  |-> FALSE])

\* The trees from_vector(points) can return.
FromVectorResults(points) ==
    {run.kdtree : run \in {r \in FromVectorRuns(points) : ~r.panic}}

\* ---------------------------------------------------------------- geo::Point
\* Point::squared_dist: the sum of the squared differences per axis.
SquaredDist(a, b) == (a.x - b.x) * (a.x - b.x) + (a.y - b.y) * (a.y - b.y)

\* ---------------------------------------------------------------- nearest_neighbors
\* i64::max_value(), the first min_dist, on the scale of the model's
\* integers.
I64Max == 2147483647

Min(a, b) == IF a < b THEN a ELSE b

\* OrdWrapper orders the heap's entries by their distance alone.
OrdLeq(a, b) == a.dist <= b.dist

\* BinaryHeap::pop takes a greatest entry; among equal ones, any.
HeapPop(heap) ==
    {heap \ {top} : top \in {e \in heap : \A o \in heap : OrdLeq(o, e)}}

\* A push with no eviction.
PushUnbounded(heap, entry, k) == {heap \cup {entry}}

\* neighbors.push(..); if neighbors.len() > k { neighbors.pop(); }
PushBounded(heap, entry, k) ==
    LET pushed == heap \cup {entry} IN
    IF Cardinality(pushed) > k THEN HeapPop(pushed) ELSE {pushed}

\* The near child (next) and the far child (candidate) of a node.
NextAndCandidate(node, path, point) ==
    IF CmpToPointValue(node, point) \in {"Less", "Equal"}
    THEN [next |-> Append(path, "left"),  candidate |-> Append(path, "right")]
    ELSE [next |-> Append(path, "right"), candidate |-> Append(path, "left")]

\* A pruning test with the two sides of the comparison exchanged.
PlaneReachableSwapped(node, point, min_dist) ==
    LET split_plane == AxisValue(node.median, node.axis)
        plane_dist  == AxisValue(point, node.axis) - split_plane
        plane_dist2 == plane_dist * plane_dist
    IN  min_dist <= plane_dist2

\* Whether the far child is pushed on the stack.
PlaneReachable(node, point, min_dist) ==
    LET split_plane == AxisValue(node.median, node.axis)
        plane_dist  == AxisValue(point, node.axis) - split_plane
        plane_dist2 == plane_dist * plane_dist
    IN  plane_dist2 <= min_dist

\* plane_dist2: the squared gap between the point and the node's splitting
\* line.
PlaneDist2(node, point) ==
    LET split_plane == AxisValue(node.median, node.axis)
        plane_dist  == AxisValue(point, node.axis) - split_plane
    IN  plane_dist * plane_dist

\* The greatest distance held in the heap (BinaryHeap::peek): None when
\* the heap is empty.
HeapMax(heap) == {d \in {e.dist : e \in heap} : \A e \in heap : e.dist <= d}

\* What the loop did at a node: the node, the size of the heap and its
\* greatest distance after the push, the squared gap, whether the node has
\* a far child and whether that child went on the stack.
Visit(path, heap, gap, has_far, scheduled) ==
    [node |-> path, held |-> Cardinality(heap), worst |-> HeapMax(heap),
     gap |-> gap, has_far |-> has_far, scheduled |-> scheduled]

\* The state of the loop on entry: the root on the stack.
NeighborsStart ==
    [nodes |-> <<(<<>>)>>, neighbors |-> {}, min_dist |-> I64Max, visits |-> <<>>]

\* The while loop from the state st = [nodes, neighbors, min_dist, visits]:
\* the states it can end in.  nodes is the stack, its top last; visits
\* records what the loop did at each node, in order.
RECURSIVE NeighborsLoop(_, _, _, _)
NeighborsLoop(t, point, k, st) ==
    IF st.nodes = <<>> THEN {st}
    ELSE
      LET path      == st.nodes[Len(st.nodes)]
          popped    == SubSeq(st.nodes, 1, Len(st.nodes) - 1)
          node      == t[path]
          node_dist == SquaredDist(node.median, point)
          min_dist  == Min(st.min_dist, node_dist)
          sides     == NextAndCandidate(node, path, point)
          far       == IF /\ sides.candidate \in DOMAIN t
                          /\ PlaneReachable(node, point, min_dist)
                       THEN <<sides.candidate>> ELSE <<>>
          near      == IF sides.next \in DOMAIN t THEN <<sides.next>> ELSE <<>>
      IN  UNION {NeighborsLoop(t, point, k,
                               [nodes     |-> popped \o far \o near,
                                neighbors |-> heap,
                                min_dist  |-> min_dist,
                                visits    |-> Append(st.visits,
                                    Visit(path, heap, PlaneDist2(node, point),
                                          sides.candidate \in DOMAIN t,
                                          far # <<>>))]) :
                     heap \in PushBounded(st.neighbors,
                                          [node |-> path, dist |-> node_dist], k)}

\* BinaryHeap::into_sorted_vec: ascending; equal entries in any order.
RECURSIVE IntoSortedVec(_)
IntoSortedVec(heap) ==
    IF heap = {} THEN {<<>>}
    ELSE UNION {{<<least>> \o sorted : sorted \in IntoSortedVec(heap \ {least})} :
                   least \in {e \in heap : \A o \in heap : OrdLeq(e, o)}}

\* What a call that panicked is recorded as returning.
Panicked == <<"panic">>

\* An early return taken only when the tree is empty and k is 0; on an
\* empty tree with k > 0 the unwrap of the root then panics.
NearestNeighborsResultsAnd(t, point, k) ==
    IF t = NoTree /\ k = 0 THEN {<<>>}
    ELSE IF t = NoTree THEN {Panicked}
    ELSE LET heaps == {run.neighbors : run \in NeighborsLoop(t, point, k, NeighborsStart)}
             pairs(sorted) == [i \in 1..Len(sorted) |->
                                  [pt  |-> t[sorted[i].node].median,
                                   val |-> t[sorted[i].node].value]]
         IN  UNION {{pairs(sorted) : sorted \in IntoSortedVec(heap)} : heap \in heaps}

\* The lists nearest_neighbors(point, k) can return: (median, value) pairs.
NearestNeighborsResults(t, point, k) ==
    IF t = NoTree \/ k = 0 THEN {<<>>}
    ELSE LET heaps == {run.neighbors : run \in NeighborsLoop(t, point, k, NeighborsStart)}
             pairs(sorted) == [i \in 1..Len(sorted) |->
                                  [pt  |-> t[sorted[i].node].median,
                                   val |-> t[sorted[i].node].value]]
         IN  UNION {{pairs(sorted) : sorted \in IntoSortedVec(heap)} : heap \in heaps}

\* nearest_neighbor(point): the first of nearest_neighbors(point, 1), if any.
NearestNeighborResults(t, point) ==
    {IF found = <<>> THEN None ELSE Some(found[1]) :
         found \in NearestNeighborsResults(t, point, 1)}

\* ---------------------------------------------------------------- reading a tree
StoredPoints(t) == {t[p].median : p \in DOMAIN t}

PathOf(t, pt) == CHOOSE p \in DOMAIN t : t[p].median = pt

ValueOf(t, pt) == t[PathOf(t, pt)].value

\* ---------------------------------------------------------------- specification
\* The fields of `last`: op names the call; point, value, k and points are
\* its arguments; old is what add returned (Option<V>), found what
\* nearest_neighbors returned (a list of pairs), nearest what
\* nearest_neighbor returned (Option of a pair).  A field the call does not
\* use holds the filler of NoCall.
\* ---------------------------------------------------------------- drawing.rs
Abs(i) == IF i < 0 THEN -i ELSE i

Pixels == [x : 0..MaxPixel, y : 0..MaxPixel]

SwapXY(p) == [x |-> p.y, y |-> p.x]

\* BresenhamLineIter::new: a steep line is iterated with x and y swapped.
BresenhamNew(start0, end0) ==
    LET dx0      == Abs(end0.x - start0.x)
        dy0      == Abs(end0.y - start0.y)
        is_steep == ~(dx0 >= dy0)
        start    == IF is_steep THEN SwapXY(start0) ELSE start0
        end      == IF is_steep THEN SwapXY(end0) ELSE end0
        dx       == IF is_steep THEN dy0 ELSE dx0
        dy       == IF is_steep THEN dx0 ELSE dy0
    IN  [start    |-> start,
         end      |-> end,
         is_steep |-> is_steep,
         dx       |-> dx,
         dy       |-> dy,
         d        |-> 2 * dy - dx,
         ystep    |-> IF start.y > end.y THEN -1 ELSE 1,
         xstep    |-> IF start.x > end.x THEN -1 ELSE 1]

\* A step that bumps y without taking 2 * dx off the error term.
NextNonSteepPointKeepsError(self) ==
    IF \/ self.start.x > self.end.x /\ self.xstep > 0
       \/ self.start.x < self.end.x /\ self.xstep < 0
    THEN [self |-> self, ret |-> None]
    ELSE IF self.start.x < 0 \/ self.start.y < 0
    THEN [self |-> self, ret |-> None]
    ELSE LET old  == [x |-> self.start.x, y |-> self.start.y]
             bump == self.d > 0
             y1   == IF bump THEN self.start.y + self.ystep ELSE self.start.y
         IN  [self |-> [self EXCEPT !.start = [x |-> self.start.x + self.xstep,
                                               y |-> y1],
                                    !.d = self.d + 2 * self.dy],
              ret  |-> Some(old)]

\* BresenhamLineIter::next_non_steep_point: the iterator after the call and
\* what the call returned.
NextNonSteepPoint(self) ==
    IF \/ self.start.x > self.end.x /\ self.xstep > 0
       \/ self.start.x < self.end.x /\ self.xstep < 0
    THEN [self |-> self, ret |-> None]
    ELSE IF self.start.x < 0 \/ self.start.y < 0
    THEN [self |-> self, ret |-> None]
    ELSE LET old  == [x |-> self.start.x, y |-> self.start.y]
             bump == self.d > 0
             y1   == IF bump THEN self.start.y + self.ystep ELSE self.start.y
             d1   == IF bump THEN self.d - 2 * self.dx ELSE self.d
         IN  [self |-> [self EXCEPT !.start = [x |-> self.start.x + self.xstep,
                                               y |-> y1],
                                    !.d = d1 + 2 * self.dy],
              ret  |-> Some(old)]

\* Iterator::next of BresenhamLineIter: a steep line's point is swapped back.
BresenhamNext(self) ==
    LET r == NextNonSteepPoint(self)
    IN  [self |-> r.self,
         ret  |-> {IF self.is_steep THEN SwapXY(res) ELSE res : res \in r.ret}]

\* collect(): the points yielded until the first None.
RECURSIVE BresenhamCollect(_)
BresenhamCollect(self) ==
    LET r == BresenhamNext(self)
    IN  IF r.ret = None THEN <<>>
        ELSE <<CHOOSE res \in r.ret : TRUE>> \o BresenhamCollect(r.self)

\* A line iterator nobody asked for: the state of `line` while the tree is
\* exercised.
NoLine == [start |-> [x |-> 0, y |-> 0], end |-> [x |-> 0, y |-> 0],
           iter |-> BresenhamNew([x |-> 0, y |-> 0], [x |-> 0, y |-> 0]),
           points |-> <<>>, nones |-> 0]

NoCall == [op |-> "new", point |-> [x |-> 0, y |-> 0], value |-> "a", k |-> 0,
           points |-> <<>>, old |-> None, found |-> <<>>, nearest |-> None]

\* ---------------------------------------------------------------- sierpinski.rs
\* The values of the unsigned coordinate type are 0..UMax.
UModulus == 2 ^ CoordBits
UMax     == UModulus - 1

\* a - b and a + b in the unsigned type: the wrapped value, and whether the
\* exact value is out of the type (a panic in a build with overflow checks,
\* the wrapped value otherwise).
USub(a, b) == [val |-> (a - b) % UModulus, overflow |-> a < b]
UAdd(a, b) == [val |-> (a + b) % UModulus, overflow |-> a + b > UMax]

PointU32New(x, y) == [x |-> x, y |-> y]

\* SierpinskiIter::new: the initial triangle, and whether a subtraction
\* left the type.
SierpinskiNew(width, height) ==
    LET h1 == USub(height, 1)
        w1 == USub(width, 1)
    IN  [triangles |-> << <<PointU32New(width \div 2, 0),
                            PointU32New(0, h1.val),
                            PointU32New(w1.val, h1.val)>> >>,
         overflow  |-> h1.overflow \/ w1.overflow]

\* The closure of next(): the three triangles that replace (top, left,
\* right).
SierpinskiSplit(t) ==
    LET top   == t[1]
        left  == t[2]
        right == t[3]
        hx    == USub(top.x, left.x)
        hy    == USub(left.y, top.y)
        mlx   == USub(top.x, hx.val \div 2)
        mly   == UAdd(top.y, hy.val \div 2)
        mrx   == UAdd(top.x, hx.val \div 2)
        mid_left   == PointU32New(mlx.val, mly.val)
        mid_right  == PointU32New(mrx.val, mid_left.y)
        mid_bottom == PointU32New(top.x, left.y)
    IN  [triangles |-> << <<top, mid_left, mid_right>>,
                          <<mid_left, left, mid_bottom>>,
                          <<mid_right, mid_bottom, right>> >>,
         overflow  |-> \/ hx.overflow \/ hy.overflow
                       \/ mlx.overflow \/ mly.overflow \/ mrx.overflow]

\* A next() that keeps only the first and the last of the three triangles.
RECURSIVE SierpinskiFlatMapTwo(_)
SierpinskiFlatMapTwo(triangles) ==
    IF triangles = <<>> THEN [triangles |-> <<>>, overflow |-> FALSE]
    ELSE LET h == SierpinskiSplit(Head(triangles))
             t == SierpinskiFlatMapTwo(Tail(triangles))
         IN  [triangles |-> <<h.triangles[1], h.triangles[3]>> \o t.triangles,
              overflow  |-> h.overflow \/ t.overflow]

\* flat_map of the closure over self.triangles, in order.
RECURSIVE SierpinskiFlatMap(_)
SierpinskiFlatMap(triangles) ==
    IF triangles = <<>> THEN [triangles |-> <<>>, overflow |-> FALSE]
    ELSE LET h == SierpinskiSplit(Head(triangles))
             t == SierpinskiFlatMap(Tail(triangles))
         IN  [triangles |-> h.triangles \o t.triangles,
              overflow  |-> h.overflow \/ t.overflow]

\* The outcomes of a computation in which an operation may have left the
\* type: the wrapped result, and a panic when one did.
Outcomes(r) ==
    {[triangles |-> r.triangles, panic |-> FALSE]}
        \cup (IF r.overflow THEN {[triangles |-> <<>>, panic |-> TRUE]} ELSE {})

\* No SierpinskiIter while the tree is exercised.
NoSierpinski == [width |-> 0, height |-> 0, triangles |-> <<>>, items |-> <<>>,
                 panic |-> FALSE]

\* ---------------------------------------------------------------- i64 arithmetic
\* The values of the signed type of twice the coordinates' width are
\* WideMin..WideMax.
WideModulus == 2 ^ (2 * CoordBits)
WideMax     == (WideModulus \div 2) - 1
WideMin     == -(WideModulus \div 2)

\* An exact result brought into the signed type: the wrapped value, and
\* whether the exact result was out of the type.
Wide(exact) ==
    [val      |-> ((exact - WideMin) % WideModulus) + WideMin,
     overflow |-> exact < WideMin \/ exact > WideMax]

\* i64::from(coordinate): every value of the unsigned type fits.
WideFrom(c) == c

WideSub(a, b) == Wide(a - b)
WideMul(a, b) == Wide(a * b)
WideAdd(a, b) == Wide(a + b)

\* plane_dist2 in the signed type.
WidePlaneDist2(median, axis, point) ==
    LET split_plane == WideFrom(AxisValue(median, axis))
        plane_dist  == WideSub(WideFrom(AxisValue(point, axis)), split_plane)
        plane_dist2 == WideMul(plane_dist.val, plane_dist.val)
    IN  [val |-> plane_dist2.val,
         overflow |-> plane_dist.overflow \/ plane_dist2.overflow]

\* Point::squared_dist in the signed type: the differences per axis,
\* squared and summed.
WideSquaredDist(a, b) ==
    LET dx  == WideSub(WideFrom(a.x), WideFrom(b.x))
        dy  == WideSub(WideFrom(a.y), WideFrom(b.y))
        dx2 == WideMul(dx.val, dx.val)
        dy2 == WideMul(dy.val, dy.val)
        sum == WideAdd(dx2.val, dy2.val)
    IN  [val |-> sum.val,
         overflow |-> \/ dx.overflow \/ dy.overflow
                      \/ dx2.overflow \/ dy2.overflow \/ sum.overflow]

\* No distance is computed outside a query.
NoWide == [median |-> [x |-> 0, y |-> 0], axis |-> "X", point |-> [x |-> 0, y |-> 0],
           called |-> FALSE, node_dist |-> 0, plane_dist2 |-> 0,
           dist_overflow |-> FALSE, gap_overflow |-> FALSE, panic |-> FALSE]

\* No call of split_element_at from outside the tree.
NoSplit == [v |-> <<>>, at |-> 0, called |-> FALSE,
            ret |-> [left |-> <<>>, elem |-> None, right |-> <<>>, panic |-> FALSE]]

\* Nothing but the tree is exercised.
OthersIdle ==
    line = NoLine /\ split = NoSplit /\ sierpinski = NoSierpinski /\ wide = NoWide

Init ==
    /\ root = KdTreeDefault.root
    /\ length = KdTreeDefault.length
    /\ last = NoCall
    /\ OthersIdle

Add ==
    \E point \in PointT, value \in Values :
        /\ length < MaxPoints \/ point \in StoredPoints(root)
        /\ LET r == KdTreeAdd([root |-> root, length |-> length], point, value) IN
           /\ root' = r.root
           /\ length' = r.length
           /\ last' = [NoCall EXCEPT !.op = "add", !.point = point,
                                     !.value = value, !.old = r.ret]
           /\ UNCHANGED other_vars

\* from_vector is a constructor: it starts from KdTree::default(), never
\* from a tree that calls have already been made on.
FromVector ==
    /\ last.op = "new"
    /\ \E n \in 0..MaxPoints : \E points \in [1..n -> Pairs] :
        \E run \in FromVectorRuns(points) :
            /\ root' = IF run.panic THEN root ELSE run.kdtree.root
            /\ length' = IF run.panic THEN length ELSE run.kdtree.length
            /\ last' = [NoCall EXCEPT !.op = "from_vector", !.points = points,
                                      !.found = IF run.panic THEN Panicked ELSE <<>>]
            /\ UNCHANGED other_vars

\* The queries take &self: they leave root and length as they are, so what
\* a query returns after another query is what it returns after the call
\* before both.  A query is therefore taken after a call that made or
\* changed the tree, which reaches every (tree, query, result).
Queries == {"nearest_neighbors", "nearest_neighbor"}

NearestNeighbors ==
    /\ last.op \notin Queries
    /\ \E point \in PointT, k \in 0..MaxK :
        \E found \in NearestNeighborsResults(root, point, k) :
            /\ last' = [NoCall EXCEPT !.op = "nearest_neighbors", !.point = point,
                                      !.k = k, !.found = found]
            /\ UNCHANGED <<root, length>>
            /\ UNCHANGED other_vars

NearestNeighbor ==
    /\ last.op \notin Queries
    /\ \E point \in PointT :
        \E nearest \in NearestNeighborResults(root, point) :
            /\ last' = [NoCall EXCEPT !.op = "nearest_neighbor", !.point = point,
                                      !.nearest = nearest]
            /\ UNCHANGED <<root, length>>
            /\ UNCHANGED other_vars

Next == Add \/ FromVector \/ NearestNeighbors \/ NearestNeighbor

Spec == Init /\ [][Next]_vars

\* The calls that change the tree, without the queries (which leave root
\* and length as they are).
NextTree == Add \/ FromVector

SpecTree == Init /\ [][NextTree]_vars

\* ---------------------------------------------------------------- lines
\* No tree is built while the other modules are exercised.
TreeIdle ==
    /\ root = KdTreeDefault.root
    /\ length = KdTreeDefault.length
    /\ last = NoCall

\* A line iterator is made for every pair of pixels.
InitLine ==
    /\ TreeIdle
    /\ \E start \in Pixels, end \in Pixels :
           line = [start |-> start, end |-> end, iter |-> BresenhamNew(start, end),
                   points |-> <<>>, nones |-> 0]
    /\ split = NoSplit
    /\ sierpinski = NoSierpinski
    /\ wide = NoWide

\* One call of next(): a point is appended to the points yielded so far, a
\* None is counted.
LineNext ==
    /\ line.nones < MaxNones
    /\ LET r == BresenhamNext(line.iter) IN
           line' = [line EXCEPT !.iter = r.self,
                                !.points = IF r.ret = None THEN @
                                           ELSE Append(@, CHOOSE res \in r.ret : TRUE),
                                !.nones = IF r.ret = None THEN @ + 1 ELSE @]
    /\ UNCHANGED <<tree_vars, split, sierpinski, wide>>

SpecLine == InitLine /\ [][LineNext]_vars

\* ---------------------------------------------------------------- split
Items == 0..MaxItem

\* A vector and an index are drawn for split_element_at.
InitSplit ==
    /\ TreeIdle
    /\ line = NoLine
    /\ sierpinski = NoSierpinski
    /\ wide = NoWide
    /\ \E n \in 0..MaxVec : \E v \in [1..n -> Items] : \E at \in 0..MaxVec :
           split = [NoSplit EXCEPT !.v = v, !.at = at]

SplitCall ==
    /\ ~split.called
    /\ split' = [split EXCEPT !.called = TRUE, !.ret = SplitElementAt(split.v, split.at)]
    /\ UNCHANGED <<tree_vars, line, sierpinski, wide>>

SpecSplit == InitSplit /\ [][SplitCall]_vars

\* ---------------------------------------------------------------- triangles
\* A SierpinskiIter is made for every width and height of the type.
InitSierpinski ==
    /\ TreeIdle
    /\ line = NoLine
    /\ split = NoSplit
    /\ wide = NoWide
    /\ \E width \in 0..UMax, height \in 0..UMax :
       \E o \in Outcomes(SierpinskiNew(width, height)) :
           sierpinski = [width |-> width, height |-> height,
                         triangles |-> o.triangles, items |-> <<>>,
                         panic |-> o.panic]

\* One call of next(): the triangles it held are the item, their
\* replacements are what it holds.
SierpinskiNext ==
    /\ ~sierpinski.panic
    /\ Len(sierpinski.items) < MaxItems
    /\ \E o \in Outcomes(SierpinskiFlatMap(sierpinski.triangles)) :
           sierpinski' = [sierpinski EXCEPT
                              !.items = IF o.panic THEN @
                                        ELSE Append(@, sierpinski.triangles),
                              !.triangles = o.triangles,
                              !.panic = o.panic]
    /\ UNCHANGED <<tree_vars, line, split, wide>>

SpecSierpinski == InitSierpinski /\ [][SierpinskiNext]_vars

\* ---------------------------------------------------------------- distances
\* The coordinates of the unsigned type.
WidePoints == [x : 0..UMax, y : 0..UMax]

\* A visited node (its median and axis) and a query point are drawn from
\* the whole coordinate type.
InitWide ==
    /\ TreeIdle
    /\ line = NoLine
    /\ split = NoSplit
    /\ sierpinski = NoSierpinski
    /\ \E median \in WidePoints, point \in WidePoints, axis \in {"X", "Y"} :
           wide = [NoWide EXCEPT !.median = median, !.point = point, !.axis = axis]

\* The arithmetic of one pass of the loop of nearest_neighbors at a node
\* with a far child: node_dist and plane_dist2.  Where an operation leaves
\* the type the pass panics (overflow checks on) or goes on with the
\* wrapped values (overflow checks off).
WideStep ==
    /\ ~wide.called
    /\ LET node_dist   == WideSquaredDist(wide.median, wide.point)
           plane_dist2 == WidePlaneDist2(wide.median, wide.axis, wide.point)
       IN  \E panic \in {FALSE, node_dist.overflow \/ plane_dist2.overflow} :
               wide' = [wide EXCEPT !.called = TRUE,
                                    !.node_dist = node_dist.val,
                                    !.plane_dist2 = plane_dist2.val,
                                    !.dist_overflow = node_dist.overflow,
                                    !.gap_overflow = plane_dist2.overflow,
                                    !.panic = panic]
    /\ UNCHANGED <<tree_vars, line, split, sierpinski>>

SpecWide == InitWide /\ [][WideStep]_vars

\* ---------------------------------------------------------------- properties
RECURSIVE SortInts(_)
SortInts(s) ==
    IF s = <<>> THEN <<>>
    ELSE LET i == CHOOSE j \in 1..Len(s) : \A l \in 1..Len(s) : s[j] <= s[l]
         IN  <<s[i]>> \o SortInts(SubSeq(s, 1, i - 1) \o SubSeq(s, i + 1, Len(s)))

Take(s, n) == SubSeq(s, 1, Min(n, Len(s)))

\* The squared distances to q of a returned list, in the list's order.
DistsOf(found, q) == [i \in 1..Len(found) |-> SquaredDist(found[i].pt, q)]

\* The squared distances to q of every node of the tree, ascending.
RECURSIVE ScanDists(_, _, _)
ScanDists(t, paths, q) ==
    IF paths = {} THEN <<>>
    ELSE LET p == CHOOSE c \in paths : TRUE
         IN  SortInts(<<SquaredDist(t[p].median, q)>> \o ScanDists(t, paths \ {p}, q))

BruteForce(t, q, k) == Take(ScanDists(t, DOMAIN t, q), k)

IsStored(t, pair) ==
    \E p \in DOMAIN t : t[p].median = pair.pt /\ t[p].value = pair.val

\* C1: nearest_neighbors(q, k) returns points whose squared distances to q
\* are, as a multiset, those of a brute-force scan of all stored points
\* sorted by squared distance and truncated to k.
C1_SameAsBruteForce ==
    last.op = "nearest_neighbors" =>
        SortInts(DistsOf(last.found, last.point)) = BruteForce(root, last.point, last.k)

\* The least squared distance to q over the nodes of a non-empty tree.
MinDist(t, q) == ScanDists(t, DOMAIN t, q)[1]

\* C2: on a non-empty tree nearest_neighbor(q) returns a stored point whose
\* squared distance to q is the least over all stored points.
C2_NearestIsClosest ==
    (last.op = "nearest_neighbor" /\ root # NoTree) =>
        /\ last.nearest # None
        /\ \A pair \in last.nearest :
               /\ IsStored(root, pair)
               /\ SquaredDist(pair.pt, last.point) = MinDist(root, last.point)

\* The paths of the subtree under the child slot `child`.
Subtree(t, child) ==
    {p \in DOMAIN t : Len(p) >= Len(child) /\ SubSeq(p, 1, Len(child)) = child}

\* A nearest_neighbor call whose answer lies on the far side of the root's
\* splitting line and is strictly closer than the root and than every point
\* on the near side.
C2_Witness ==
    /\ last.op = "nearest_neighbor"
    /\ root # NoTree
    /\ LET sides == NextAndCandidate(root[<<>>], <<>>, last.point)
           far   == Subtree(root, sides.candidate)
       IN  /\ \E pair \in last.nearest : \E p \in far : root[p].median = pair.pt
           /\ Subtree(root, sides.next) # {}
           /\ \A p \in DOMAIN root \ far :
                  SquaredDist(root[p].median, last.point) > MinDist(root, last.point)

\* C3: on a non-empty tree and for k > 0, nearest_neighbors(q, k) returns
\* exactly min(k, len()) results.
C3_ExactlyMinKLen ==
    (last.op = "nearest_neighbors" /\ root # NoTree /\ last.k > 0) =>
        Len(last.found) = Min(last.k, length)

\* C4: the list nearest_neighbors(q, k) returns is sorted by non-decreasing
\* squared distance to q, has at most k entries, every entry is a
\* (point, value) pair stored in the tree, and no point appears twice.
C4_SortedBoundedStored ==
    last.op = "nearest_neighbors" =>
        LET found == last.found
            dists == DistsOf(found, last.point)
        IN  /\ \A i \in 1..(Len(found) - 1) : dists[i] <= dists[i + 1]
            /\ Len(found) <= last.k
            /\ \A i \in 1..Len(found) : IsStored(root, found[i])
            /\ \A i, j \in 1..Len(found) : found[i].pt = found[j].pt => i = j

\* A nearest_neighbors call on a tree of more than k points that returned
\* k >= 2 points at different distances.
C4_Witness ==
    /\ last.op = "nearest_neighbors"
    /\ last.k >= 2
    /\ length > last.k
    /\ Len(last.found) = last.k
    /\ SquaredDist(last.found[1].pt, last.point)
           < SquaredDist(last.found[Len(last.found)].pt, last.point)

\* C5: nearest_neighbors returns the empty list on an empty tree for any k
\* and on a non-empty tree for k = 0; nearest_neighbor returns none on an
\* empty tree.
C5_DegenerateQuery ==
    /\ (last.op = "nearest_neighbors" /\ (root = NoTree \/ last.k = 0)) =>
           last.found = <<>>
    /\ (last.op = "nearest_neighbor" /\ root = NoTree) => last.nearest = None

\* nearest_neighbors was called with k > 0 on an empty tree.
C5_Witness ==
    /\ last.op = "nearest_neighbors"
    /\ root = NoTree
    /\ last.k > 0

\* C6: add(p, v) of a point p already stored returns Some(the value stored
\* for p), leaves len() unchanged, creates no node, and afterwards the
\* value stored for p is v.
C6_AddStoredPoint ==
    [][(last'.op = "add" /\ last'.point \in StoredPoints(root)) =>
          /\ last'.old = Some(ValueOf(root, last'.point))
          /\ length' = length
          /\ DOMAIN root' = DOMAIN root
          /\ ValueOf(root', last'.point) = last'.value]_vars

\* add replaced the value of a point stored below the root by another value.
C6_Witness ==
    /\ last.op = "add"
    /\ last.old # None
    /\ last.old # Some(last.value)
    /\ PathOf(root, last.point) # <<>>

\* The points of a list of pairs.
PointsOf(points) == {points[i].pt : i \in 1..Len(points)}

\* C7: the tree from_vector returns has len() equal to the number of
\* distinct points of the list and stores exactly those points.
C7_FromVectorDistinct ==
    last.op = "from_vector" =>
        /\ length = Cardinality(PointsOf(last.points))
        /\ StoredPoints(root) = PointsOf(last.points)

\* from_vector was given a list where a point occurs twice beside another
\* point.
C7_Witness ==
    /\ last.op = "from_vector"
    /\ Cardinality(PointsOf(last.points)) >= 2
    /\ Cardinality(PointsOf(last.points)) < Len(last.points)

\* The value of the last pair of the list that has the point pt.
LastValue(points, pt) ==
    LET i == CHOOSE j \in 1..Len(points) :
                 /\ points[j].pt = pt
                 /\ \A l \in (j + 1)..Len(points) : points[l].pt # pt
    IN  points[i].val

\* C8: when the list given to from_vector has several pairs with the same
\* point, the value stored for the point is that of the last such pair.
C8_LastPairWins ==
    last.op = "from_vector" =>
        \A pt \in PointsOf(last.points) :
            pt \in StoredPoints(root) => ValueOf(root, pt) = LastValue(last.points, pt)

\* C9: for every node with axis A, every point in its left subtree has an
\* axis-A coordinate <= the node's, every point in its right subtree a
\* strictly greater one.
C9_LeftInclusiveOrder ==
    \A p \in DOMAIN root :
        LET node == root[p] IN
        /\ \A d \in Subtree(root, Append(p, "left")) :
               AxisValue(root[d].median, node.axis) <= AxisValue(node.median, node.axis)
        /\ \A d \in Subtree(root, Append(p, "right")) :
               AxisValue(root[d].median, node.axis) > AxisValue(node.median, node.axis)

\* A tree whose root has a left subtree holding a point with the root's own
\* x coordinate, and a right subtree.
C9_Witness ==
    /\ root # NoTree
    /\ \E d \in Subtree(root, <<"left">>) : root[d].median.x = root[<<>>].median.x
    /\ Subtree(root, <<"right">>) # {}

\* C10: no two nodes hold equal points.
C10_NoEqualPoints ==
    \A p, q \in DOMAIN root : root[p].median = root[q].median => p = q

\* add was called with a point stored two levels below the root, in a tree
\* of three nodes.
C10_Witness ==
    /\ last.op = "add"
    /\ last.old # None
    /\ length = 3
    /\ Len(PathOf(root, last.point)) = 2

\* The tree as the calls see it.
Self == [root |-> root, length |-> length]

\* C11: len() equals the number of nodes of the tree, and is_empty() is
\* true exactly when the tree has no root.
C11_LenCountsNodes ==
    /\ KdTreeLen(Self) = Cardinality(DOMAIN root)
    /\ KdTreeIsEmpty(Self) <=> (root = NoTree)

\* from_vector was given three pairs, two of them at the same point: the
\* tree has two nodes.
C11_Witness ==
    /\ last.op = "from_vector"
    /\ Len(last.points) = 3
    /\ Cardinality(DOMAIN root) = 2

\* The axis of a node at the given depth when the root has X.
AxisAtDepth(depth) == IF depth % 2 = 0 THEN "X" ELSE "Y"

\* C12: the root has axis X and the axis of every child is its parent's
\* axis cycled, so a node has X at even depth and Y at odd depth.
C12_AxisCycles ==
    \A p \in DOMAIN root :
        /\ root[p].axis = AxisAtDepth(Len(p))
        /\ p # <<>> =>
               /\ SubSeq(p, 1, Len(p) - 1) \in DOMAIN root
               /\ root[p].axis # root[SubSeq(p, 1, Len(p) - 1)].axis

\* from_vector made a tree with a node two levels below the root.
C12_Witness ==
    /\ last.op = "from_vector"
    /\ \E p \in DOMAIN root : Len(p) = 2

Reverse(s) == [i \in 1..Len(s) |-> s[Len(s) + 1 - i]]

\* The line iterator has run out.
LineDone == line.nones > 0

\* C13: the points of the line from end to start are the points of the
\* line from start to end in reverse order.
C13_ReversedLine ==
    LineDone =>
        BresenhamCollect(BresenhamNew(line.end, line.start)) = Reverse(line.points)

Max(a, b) == IF a >= b THEN a ELSE b

\* The number of points of the line between two pixels.
LineLen(start, end) == Max(Abs(end.x - start.x), Abs(end.y - start.y)) + 1

\* Two consecutive points of a line: one apart in the coordinate that grows
\* faster, at most one apart in the other.
LineStep(p, q, start, end) ==
    LET ax == Abs(q.x - p.x)
        ay == Abs(q.y - p.y)
    IN  IF Abs(end.x - start.x) >= Abs(end.y - start.y)
        THEN ax = 1 /\ ay <= 1
        ELSE ay = 1 /\ ax <= 1

\* C14: the iterator yields max(|dx|, |dy|) + 1 points, the first is start,
\* the last is end, consecutive points are one apart in the faster-growing
\* coordinate and at most one apart in the other, and once the last point
\* is out every next() returns None.
C14_LineShape ==
    LET n == LineLen(line.start, line.end) IN
    /\ Len(line.points) <= n
    /\ LineDone => Len(line.points) = n
    /\ Len(line.points) = n => BresenhamNext(line.iter).ret = None
    /\ Len(line.points) >= 1 => line.points[1] = line.start
    /\ Len(line.points) = n => line.points[n] = line.end
    /\ \A i \in 1..(Len(line.points) - 1) :
           LineStep(line.points[i], line.points[i + 1], line.start, line.end)

\* A steep line of four points going down and left, asked for more after
\* it ran out.
C14_Witness ==
    /\ line.nones = MaxNones
    /\ line.iter.is_steep
    /\ line.start = [x |-> 1, y |-> 3]
    /\ line.end = [x |-> 0, y |-> 0]
    /\ Len(line.points) = 4

\* C15: a vector made of left, elem and right, split at len(left), gives
\* back left, Some(elem) and right; the empty vector gives (empty, None,
\* empty) at every index.
C15_SplitGivesParts ==
    split.called =>
        /\ \A left \in {SubSeq(split.v, 1, i) : i \in 0..Len(split.v)} :
           \A right \in {SubSeq(split.v, i, Len(split.v)) : i \in 1..(Len(split.v) + 1)} :
           \A elem \in Items :
               (split.v = left \o <<elem>> \o right /\ split.at = Len(left)) =>
                   /\ ~split.ret.panic
                   /\ split.ret.left = left
                   /\ split.ret.elem = Some(elem)
                   /\ split.ret.right = right
        /\ split.v = <<>> =>
               /\ ~split.ret.panic
               /\ split.ret.left = <<>>
               /\ split.ret.elem = None
               /\ split.ret.right = <<>>

\* A vector of three elements was split at its middle element.
C15_Witness ==
    /\ split.called
    /\ Len(split.v) = 3
    /\ split.at = 1
    /\ split.ret.elem = Some(split.v[2])
    /\ split.v[1] # split.v[3]

\* The three triangles the claim puts in the place of (top, left, right).
Replacement(t) == SierpinskiSplit(t).triangles

RECURSIVE Replaced(_)
Replaced(item) ==
    IF item = <<>> THEN <<>> ELSE Replacement(Head(item)) \o Replaced(Tail(item))

\* Neither new nor a next() has panicked, item 0 is the triangle of the
\* bounding box, item n + 1 is item n with every triangle replaced, and
\* item n has 3^n triangles.
SierpinskiItems ==
    /\ ~sierpinski.panic
    /\ \A n \in 1..Len(sierpinski.items) :
           /\ n = 1 => sierpinski.items[n] =
                  << <<PointU32New(sierpinski.width \div 2, 0),
                       PointU32New(0, sierpinski.height - 1),
                       PointU32New(sierpinski.width - 1, sierpinski.height - 1)>> >>
           /\ n > 1 => sierpinski.items[n] = Replaced(sierpinski.items[n - 1])
           /\ Len(sierpinski.items[n]) = 3 ^ (n - 1)

LastVisits ==
    UNION {{run.visits[i] : i \in 1..Len(run.visits)} :
              run \in NeighborsLoop(root, last.point, last.k, NeighborsStart)}

\* worst-kept allows the far child: the heap holds fewer than k entries, or
\* the squared gap is at most the greatest distance it holds.
WorstKeptReaches(v, k) == v.held < k \/ \E worst \in v.worst : v.gap <= worst

\* C17: at every node nearest_neighbors(q, k) visits, the far child is put
\* on the stack exactly when the squared gap is at most worst-kept, which
\* is unbounded while fewer than k entries are held and the greatest held
\* distance after that.
C17_FarChildByWorstKept ==
    (last.op = "nearest_neighbors" /\ root # NoTree /\ last.k > 0) =>
        \A v \in LastVisits :
            v.has_far => (v.scheduled <=> WorstKeptReaches(v, last.k))

\* The number of nodes on the longest path from the root down.
Height(t) == IF t = NoTree THEN 0 ELSE 1 + CHOOSE h \in {Len(p) : p \in DOMAIN t} :
                                              \A p \in DOMAIN t : Len(p) <= h

RECURSIVE Log2(_)
Log2(n) == IF n <= 1 THEN 0 ELSE 1 + Log2(n \div 2)

PairwiseDistinct(points) ==
    \A i, j \in 1..Len(points) : i # j => points[i].pt # points[j].pt

\* C18: the tree from_vector builds from n >= 1 pairwise distinct points
\* has height at most floor(log2(n)) + 1.
C18_FromVectorBalanced ==
    (/\ last.op = "from_vector"
     /\ Len(last.points) >= 1
     /\ PairwiseDistinct(last.points)) =>
        Height(root) <= Log2(Len(last.points)) + 1

\* How many times a pair occurs in a list.
Occurrences(pair, list) == Cardinality({i \in 1..Len(list) : list[i] = pair})

\* The pairs a run of from_vector gave to add, in order.
RECURSIVE AddedBy(_)
AddedBy(items) ==
    IF items = <<>> THEN <<>>
    ELSE (IF Head(items).added = None THEN <<>>
          ELSE <<CHOOSE pair \in Head(items).added : TRUE>>) \o AddedBy(Tail(items))

\* C20: from_vector ends without a panic on every list; every work item it
\* processes is non-empty with mid = len / 2 < len, so the selection gets a
\* rank below the length and the element at mid exists; every pair of the
\* list is given to add exactly once; the empty list gives the empty tree.
C20_FromVectorNoPanic ==
    last.op = "from_vector" =>
        /\ last.found # Panicked
        /\ FromVectorRuns(last.points) # {}
        /\ \A run \in FromVectorRuns(last.points) :
               /\ ~run.panic
               /\ \A i \in 1..Len(run.items) :
                      /\ run.items[i].len >= 1
                      /\ run.items[i].mid = run.items[i].len \div 2
                      /\ run.items[i].mid < run.items[i].len
                      /\ run.items[i].added # None
               /\ \A pair \in Pairs :
                      Occurrences(pair, AddedBy(run.items)) = Occurrences(pair, last.points)
               /\ last.points = <<>> => run.kdtree = KdTreeDefault

\* from_vector was given the same point three times: add was called three
\* times and the tree has one node.
C20_Witness ==
    /\ last.op = "from_vector"
    /\ Len(last.points) = 3
    /\ length = 1
    /\ last.points[1].val # last.points[3].val

\* C19: neither the squared gap to the splitting line nor the squared
\* distance to the node leaves the signed type of twice the coordinates'
\* width, for any coordinates of the unsigned type.
C19_NoOverflow ==
    wide.called => (~wide.gap_overflow /\ ~wide.dist_overflow /\ ~wide.panic)

\* The empty child slot the left-inclusive descent of a point ends at: left
\* of a node when the point's coordinate on the node's axis is at most the
\* node's, right otherwise.
RECURSIVE DescentSlot(_, _, _)
DescentSlot(t, path, point) ==
    IF path \notin DOMAIN t THEN path
    ELSE LET axis == IF Len(path) % 2 = 0 THEN "X" ELSE "Y"
             side == IF (IF axis = "X" THEN point.x <= t[path].median.x
                                       ELSE point.y <= t[path].median.y)
                     THEN "left" ELSE "right"
         IN  DescentSlot(t, Append(path, side), point)

\* The axis of a node attached at a slot: X for the root, its parent's axis
\* cycled below.
AttachedAxis(t, slot) ==
    IF slot = <<>> THEN "X"
    ELSE IF t[SubSeq(slot, 1, Len(slot) - 1)].axis = "X" THEN "Y" ELSE "X"

\* C21: add(p, v) of a point that is not stored returns None, increments
\* len() by one and attaches one leaf holding (p, v) at the empty slot the
\* left-inclusive descent reaches, and every node the tree had keeps its
\* place, point, value and axis; add of a stored point changes the value of
\* that node and nothing else.
C21_AddFrame ==
    [][last'.op = "add" =>
          IF last'.point \notin StoredPoints(root)
          THEN LET slot == DescentSlot(root, <<>>, last'.point) IN
               /\ last'.old = None
               /\ length' = length + 1
               /\ DOMAIN root' = DOMAIN root \cup {slot}
               /\ slot \notin DOMAIN root
               /\ root'[slot] = [axis   |-> AttachedAxis(root, slot),
                                 median |-> last'.point,
                                 value  |-> last'.value]
               /\ \A side \in {"left", "right"} : Append(slot, side) \notin DOMAIN root'
               /\ \A p \in DOMAIN root : root'[p] = root[p]
          ELSE LET at == PathOf(root, last'.point) IN
               /\ length' = length
               /\ DOMAIN root' = DOMAIN root
               /\ \A p \in DOMAIN root \ {at} : root'[p] = root[p]
               /\ root'[at] = [root[at] EXCEPT !.value = last'.value]]_vars

\* add attached a leaf two levels below the root, under a node whose value
\* is not the leaf's.
C21_Witness ==
    /\ last.op = "add"
    /\ last.old = None
    /\ length = 3
    /\ Len(PathOf(root, last.point)) = 2
    /\ \E p \in DOMAIN root : root[p].value # last.value
====
